---------------------------- MODULE Spec2Model ----------------------------
(* The command-processing engine of the emulated NVMe controller         *)
(* (cNVMe/Controller.cpp): admin queue materialization, the doorbell      *)
(* observer and drain loop, the command identifier validator, the         *)
(* completion producer with its phase tag, and the controller reset.      *)
(*                                                                        *)
(* checkForChanges is modelled in steps: Begin is lines 66-133 (the       *)
(* readiness gate, materialization or rebase of the admin queues, the     *)
(* doorbell comparison and setTailPointer), Drain is one pass of the      *)
(* while loop of lines 135-139. controllerResetCallback is one step, and  *)
(* so is each write of the host / register collaborator to a register or  *)
(* doorbell. Spec is single-threaded mode (waitForChangeLoop calls        *)
(* checkForChanges synchronously): nothing interleaves with a call.       *)
(* Host memory is not kept as state: the engine never reads what it has   *)
(* written, so its stores are kept as the write log of the last step      *)
(* (posted, payloads), and the command it loads from the submission ring  *)
(* is an input of the step, since the host may store anything there       *)
(* before it rings the doorbell.                                          *)
EXTENDS Integers, Sequences, FiniteSets, TLC

\* ------------------------------------------------------------- bounds

\* Command identifiers are 0 .. NumCids-1 (UINT_16 in the program).
NumCids == 2
\* AQA.ASQS and AQA.ACQS are zero-based sizes in 1 .. MaxAQA (12 bits in the program).
MaxAQA == 2

\* ---------------------------------------------------------- constants

ADMIN_QUEUE_ID == 0
\* constants::opcodes::admin
IDENTIFY == 6
KEEP_ALIVE == 24
\* constants::status::codes::generic
COMMAND_ID_CONFLICT == 3
INVALID_COMMAND_OPCODE == 1
\* The identifier space is 16 bits and MAX_COMMAND_IDENTIFIER is its size.
MAX_COMMAND_IDENTIFIER == NumCids
\* A null Queue* / an index into the other registry.
NULL == 0

CIDs == 0 .. NumCids - 1
\* Opcodes the host may store: the two handled ones and one that is not.
Opcodes == {IDENTIFY, KEEP_ALIVE, 0}
\* Values of ASQ.ASQB / ACQ.ACQB: unprogrammed and two bases.
BaseAddresses == {0, 4096, 8192}
\* Values of AQA.ASQS / AQA.ACQS.
QueueSizes == 1 .. MaxAQA
\* Values the host may store to the SQ tail doorbell: every slot of the largest
\* queue, and so values >= the slot count of every smaller one.
DoorbellValues == 0 .. MaxAQA
\* Results of ControllerRegisters::getMemoryPageSize: 0 or 2^12.
PageSizes == {0, 4096}
\* DPTR1 of a command.
PrpAddresses == {65536}

\* A 64-byte command as far as the engine decodes it.
Commands == [OPC : Opcodes, CID : CIDs, DPTR1 : PrpAddresses]
\* What one pass of the drain loop loads: the command in the slot and the page size.
Inputs == [command : Commands, memoryPageSize : PageSizes]

VARIABLES
    regs,                                   \* CSTS.RDY, ASQ.ASQB, ACQ.ACQB
    aqa,                                    \* AQA.ASQS, AQA.ACQS as the last step read them to construct a queue
    SQT,                                    \* doorbells[0].SQTDBL.SQT
    CQH,                                    \* doorbells[0].CQHDBL.CQH
    ValidSubmissionQueues,
    ValidCompletionQueues,
    SubmissionQueueIdToCommandIdentifiers,
    QueueToPhaseTag,
    crashed,                                \* assert(0) has aborted the process
    pc,                                     \* "idle", or "drain" inside the while loop
    op,                                     \* the step taken last
    consumed,                               \* the command the last step moved the SQ head past
    posted,                                 \* the completion entry the last step stored
    payloads,                               \* the PRP payload the last step stored
    posts,                                  \* completions posted since bring-up, mod 2 * slot count; -1: not counted
    rejected,                               \* the CID the last Drain step found in conflict, kept over a reset
    accepted                                \* the CIDs accepted on the admin SQ since the last controller reset; NotKept: no record

vars == <<regs, aqa, SQT, CQH, ValidSubmissionQueues, ValidCompletionQueues,
          SubmissionQueueIdToCommandIdentifiers, QueueToPhaseTag, crashed,
          pc, op, consumed, posted, payloads, posts, rejected, accepted>>

\* ------------------------------------------------------------- Queue

\* std::map as a function; the empty map.
EmptyMap == <<>>

\* The value of a history variable that is not kept in a specification.
NotKept == {-1}

Put(map, key, value) ==
    [k \in DOMAIN map \cup {key} |-> IF k = key THEN value ELSE map[k]]

\* Queue::Queue: head = tail = 0, no mapped queue.
Queue(queueSize, queueId, doorbell, memoryAddress) ==
    [QueueSize |-> queueSize, QueueId |-> queueId, Doorbell |-> doorbell,
     MemoryAddress |-> memoryAddress, HeadPointer |-> 0, TailPointer |-> 0,
     MappedQueue |-> NULL]

setMemoryAddress(q, memoryAddress) == [q EXCEPT !.MemoryAddress = memoryAddress]

setMappedQueue(q, mapped) == [q EXCEPT !.MappedQueue = mapped]

\* Queue::setTailPointer: [ok, queue]; rejects a tail >= the slot count.
setTailPointer(q, newTail) ==
    IF newTail >= q.QueueSize
    THEN [ok |-> FALSE, queue |-> q]
    ELSE [ok |-> TRUE, queue |-> [q EXCEPT !.TailPointer = newTail]]

\* Queue::incrementAndGetHeadCloserToTail: head + 1 with wrap at the slot count.
incrementAndGetHeadCloserToTail(q) ==
    [q EXCEPT !.HeadPointer = (q.HeadPointer + 1) % q.QueueSize]

\* Controller::getQueueWithId: the index of the first queue with that id, or NULL.
getQueueWithId(queues, id) ==
    IF \E i \in 1 .. Len(queues) : queues[i].QueueId = id
    THEN CHOOSE i \in 1 .. Len(queues) :
             /\ queues[i].QueueId = id
             /\ \A j \in 1 .. i - 1 : queues[j].QueueId # id
    ELSE NULL

\* ------------------------------------------------ the engine's state

\* The engine's state as one value, so that the handlers are functions of it.
\* The write logs start empty in every step.
Engine ==
    [sqs |-> ValidSubmissionQueues, cqs |-> ValidCompletionQueues,
     cids |-> SubmissionQueueIdToCommandIdentifiers, phase |-> QueueToPhaseTag,
     CQH |-> CQH, crashed |-> crashed, pc |-> pc,
     consumed |-> <<>>, posted |-> <<>>, payloads |-> <<>>, posts |-> posts,
     rejected |-> {}, accepted |-> accepted]

\* ------------------------------------ Command Identifier Validator

\* isValidCommandIdentifier that forgets the CID it rejects.
isValidCommandIdentifier_RetiresOnConflict(cids, commandId, submissionQueueId) ==
    IF submissionQueueId \notin DOMAIN cids
    THEN [ok |-> TRUE, cids |-> Put(cids, submissionQueueId, {commandId})]
    ELSE LET thisSubqsCids == cids[submissionQueueId]
             cleared == IF Cardinality(thisSubqsCids) = MAX_COMMAND_IDENTIFIER
                        THEN {}
                        ELSE thisSubqsCids
         IN  IF commandId \notin cleared
             THEN [ok |-> TRUE,
                   cids |-> Put(cids, submissionQueueId, cleared \cup {commandId})]
             ELSE [ok |-> FALSE,
                   cids |-> Put(cids, submissionQueueId, cleared \ {commandId})]

\* isValidCommandIdentifier that looks the CID up before it tests for saturation.
isValidCommandIdentifier_MembershipFirst(cids, commandId, submissionQueueId) ==
    IF submissionQueueId \notin DOMAIN cids
    THEN [ok |-> TRUE, cids |-> Put(cids, submissionQueueId, {commandId})]
    ELSE LET thisSubqsCids == cids[submissionQueueId]
         IN  IF commandId \in thisSubqsCids
             THEN [ok |-> FALSE, cids |-> cids]
             ELSE IF Cardinality(thisSubqsCids) = MAX_COMMAND_IDENTIFIER
             THEN [ok |-> TRUE, cids |-> Put(cids, submissionQueueId, {commandId})]
             ELSE [ok |-> TRUE,
                   cids |-> Put(cids, submissionQueueId, thisSubqsCids \cup {commandId})]

\* Controller::isValidCommandIdentifier: [ok, cids], cids the map afterwards.
isValidCommandIdentifier(cids, commandId, submissionQueueId) ==
    IF submissionQueueId \notin DOMAIN cids
    THEN [ok |-> TRUE, cids |-> Put(cids, submissionQueueId, {commandId})]
    ELSE LET thisSubqsCids == cids[submissionQueueId]
             cleared == IF Cardinality(thisSubqsCids) = MAX_COMMAND_IDENTIFIER
                        THEN {}
                        ELSE thisSubqsCids
         IN  IF commandId \notin cleared
             THEN [ok |-> TRUE,
                   cids |-> Put(cids, submissionQueueId, cleared \cup {commandId})]
             ELSE [ok |-> FALSE, cids |-> Put(cids, submissionQueueId, cleared)]

\* ------------------------------------------- Completion Producer

\* COMPLETION_QUEUE_ENTRY cqe = { 0 }
ZeroEntry == [SQID |-> 0, SQHD |-> 0, CID |-> 0, P |-> 0, SC |-> 0, DNR |-> 0]

\* postCompletion with the phase tag inverted when the head has wrapped to 0 after
\* the entry was stored, instead of when the head is 0 before it is.
postCompletion_FlipAfterStore(e, cqi, completionEntry, command) ==
    LET completionQueue == e.cqs[cqi]
        submissionQueue == e.sqs[completionQueue.MappedQueue]
        sqid == submissionQueue.QueueId
        found == IF sqid \in DOMAIN e.phase THEN e.phase ELSE Put(e.phase, sqid, FALSE)
        entry == [completionEntry EXCEPT
                      !.SQID = sqid,
                      !.SQHD = submissionQueue.HeadPointer,
                      !.CID = command.CID,
                      !.P = IF found[sqid] THEN 1 ELSE 0]
        moved == incrementAndGetHeadCloserToTail(completionQueue)
    IN  [e EXCEPT
            !.phase = IF moved.HeadPointer = 0 THEN Put(found, sqid, ~found[sqid]) ELSE found,
            !.posted = Append(@, [address |-> completionQueue.MemoryAddress,
                                  slot |-> completionQueue.HeadPointer,
                                  entry |-> entry,
                                  from |-> [address |-> command.address, slot |-> command.slot],
                                  k |-> e.posts]),
            !.posts = IF e.posts = -1 THEN -1
                      ELSE (e.posts + 1) % (2 * completionQueue.QueueSize),
            !.cqs[cqi] = moved,
            !.CQH = moved.HeadPointer]

\* storeEntry that has the doorbell written by the time the entry is stored.
storeEntry_DoorbellFirst(e, cqi, completionEntry, command) ==
    LET completionQueue == e.cqs[cqi]
        submissionQueue == e.sqs[completionQueue.MappedQueue]
        sqid == submissionQueue.QueueId
        found == IF sqid \in DOMAIN e.phase THEN e.phase ELSE Put(e.phase, sqid, FALSE)
        flipped == IF completionQueue.HeadPointer = 0
                   THEN Put(found, sqid, ~found[sqid])
                   ELSE found
        entry == [completionEntry EXCEPT
                      !.SQID = sqid,
                      !.SQHD = submissionQueue.HeadPointer,
                      !.CID = command.CID,
                      !.P = IF flipped[sqid] THEN 1 ELSE 0]
    IN  [e EXCEPT
            !.phase = flipped,
            !.CQH = incrementAndGetHeadCloserToTail(completionQueue).HeadPointer,
            !.posted = Append(@, [address |-> completionQueue.MemoryAddress,
                                  slot |-> completionQueue.HeadPointer,
                                  entry |-> entry,
                                  from |-> [address |-> command.address, slot |-> command.slot],
                                  k |-> e.posts]),
            !.posts = IF e.posts = -1 THEN -1
                      ELSE (e.posts + 1) % (2 * completionQueue.QueueSize)]

\* Lines 237-274 of Controller::postCompletion on the completion queue at index
\* cqi: the entry is composed and copied into the slot at the head. command is the
\* command with the place it was loaded from (the NVME_COMMAND* of the code).
storeEntry(e, cqi, completionEntry, command) ==
    LET completionQueue == e.cqs[cqi]
        submissionQueue == e.sqs[completionQueue.MappedQueue]
        sqid == submissionQueue.QueueId
        found == IF sqid \in DOMAIN e.phase THEN e.phase ELSE Put(e.phase, sqid, FALSE)
        flipped == IF completionQueue.HeadPointer = 0
                   THEN Put(found, sqid, ~found[sqid])
                   ELSE found
        entry == [completionEntry EXCEPT
                      !.SQID = sqid,
                      !.SQHD = submissionQueue.HeadPointer,
                      !.CID = command.CID,
                      !.P = IF flipped[sqid] THEN 1 ELSE 0]
    IN  [e EXCEPT
            !.phase = flipped,
            !.posted = Append(@, [address |-> completionQueue.MemoryAddress,
                                  slot |-> completionQueue.HeadPointer,
                                  entry |-> entry,
                                  from |-> [address |-> command.address, slot |-> command.slot],
                                  k |-> e.posts]),
            !.posts = IF e.posts = -1 THEN -1
                      ELSE (e.posts + 1) % (2 * completionQueue.QueueSize)]

\* Line 276: the head of the completion queue moves.
moveHead(e, cqi) == [e EXCEPT !.cqs[cqi] = incrementAndGetHeadCloserToTail(@)]

\* Lines 279-280: the head is stored into the doorbell of the completion queue.
ringDoorbell(e, cqi) == [e EXCEPT !.CQH = e.cqs[cqi].HeadPointer]

\* Controller::postCompletion on the completion queue at index cqi.
postCompletion(e, cqi, completionEntry, command) ==
    ringDoorbell(moveHead(storeEntry(e, cqi, completionEntry, command), cqi), cqi)

\* ------------------------------------------------ Controller Engine

\* Controller::processCommandAndPostCompletion on the submission queue at index sqi,
\* up to the call of postCompletion: [post, e, entry, command], post FALSE where
\* it returns without one. input is what the call loads: the command in the head
\* slot and the page size. ndebug is the build: with NDEBUG assert(0) is compiled
\* out, without it the process aborts there.
processCommand(e, sqi, input, ndebug) ==
    LET submissionQueue == e.sqs[sqi]
        theCompletionQueue == submissionQueue.MappedQueue
        command == [OPC |-> input.command.OPC, CID |-> input.command.CID,
                    DPTR1 |-> input.command.DPTR1,
                    address |-> submissionQueue.MemoryAddress,
                    slot |-> submissionQueue.HeadPointer]
        valid == isValidCommandIdentifier(e.cids, command.CID, submissionQueue.QueueId)
        checked == [e EXCEPT !.cids = valid.cids,
                             !.rejected = IF valid.ok THEN {} ELSE {command.CID},
                             !.accepted = IF valid.ok /\ @ # NotKept
                                          THEN @ \cup {command.CID} ELSE @]
        Return(state) == [post |-> FALSE, e |-> state, entry |-> ZeroEntry,
                          command |-> command]
        Post(state, completionEntry) == [post |-> TRUE, e |-> state,
                                         entry |-> completionEntry, command |-> command]
    IN  IF theCompletionQueue = NULL
        THEN Return(e)
        ELSE IF ~valid.ok
        THEN Post(checked, [ZeroEntry EXCEPT !.SC = COMMAND_ID_CONFLICT, !.DNR = 1])
        ELSE IF input.memoryPageSize = 0
        THEN Return(checked)
        ELSE IF submissionQueue.QueueId # ADMIN_QUEUE_ID
        THEN Return([checked EXCEPT !.crashed = ~ndebug])
        ELSE IF command.OPC = IDENTIFY
        THEN Post([checked EXCEPT !.payloads =
                       Append(@, [address |-> command.DPTR1,
                                  size |-> input.memoryPageSize,
                                  bytes |-> <<1, 255>>])],
                  ZeroEntry)
        ELSE IF command.OPC = KEEP_ALIVE
        THEN Post(checked, ZeroEntry)
        ELSE IF ndebug
        THEN Post(checked, ZeroEntry)
        ELSE Return([checked EXCEPT !.crashed = TRUE])

\* Controller::processCommandAndPostCompletion.
processCommandAndPostCompletion(e, sqi, input, ndebug) ==
    LET p == processCommand(e, sqi, input, ndebug)
    IN  IF p.post
        THEN postCompletion(p.e, e.sqs[sqi].MappedQueue, p.entry, p.command)
        ELSE p.e

\* The command the pass has loaded from the head slot of sq, for the log.
Loaded(sq, input) ==
    [address |-> sq.MemoryAddress, slot |-> sq.HeadPointer,
     CID |-> input.command.CID, OPC |-> input.command.OPC,
     memoryPageSize |-> input.memoryPageSize]

\* Lines 138-139 for the queue at index sqi: the head moves; the loop, and with it
\* the call, ends when the head has reached the tail.
advance(e, sqi) ==
    LET moved == incrementAndGetHeadCloserToTail(e.sqs[sqi])
    IN  [e EXCEPT !.sqs[sqi] = moved,
                  !.pc = IF moved.HeadPointer = moved.TailPointer THEN "idle" ELSE "drain"]

\* One pass of the while loop of Controller::checkForChanges (lines 135-139) on the
\* queue at index sqi: the command is processed and the head moves.
drain(e, sqi, input, ndebug) ==
    LET processed == processCommandAndPostCompletion(e, sqi, input, ndebug)
    IN  IF processed.crashed
        THEN processed
        ELSE advance([processed EXCEPT !.consumed = Append(@, Loaded(e.sqs[sqi], input))],
                     sqi)

\* The pass up to line 274 of postCompletion, where it posts a completion: the
\* entry is in its slot, the head of the completion queue and the doorbell are
\* still to be written. The whole pass where it posts none.
store(e, sqi, input, ndebug) ==
    LET p == processCommand(e, sqi, input, ndebug)
    IN  IF p.post
        THEN [storeEntry(p.e, e.sqs[sqi].MappedQueue, p.entry, p.command) EXCEPT
                  !.consumed = Append(@, Loaded(e.sqs[sqi], input)),
                  !.pc = "stored"]
        ELSE drain(e, sqi, input, ndebug)

\* lines 83-93 with every call a first one: an admin submission queue is pushed
\* though the registry holds one.
withSubmissionQueue_PushesAlways(e, r, a) ==
    [e EXCEPT !.sqs = Append(@, Queue(a.ASQS + 1, ADMIN_QUEUE_ID, "SQT", r.ASQB))]

\* lines 83-93 with the rebase done by constructing the queue anew.
withSubmissionQueue_Rebuilds(e, r, a) ==
    IF Len(e.sqs) = 0
    THEN [e EXCEPT !.sqs = Append(@, Queue(a.ASQS + 1, ADMIN_QUEUE_ID, "SQT", r.ASQB))]
    ELSE [e EXCEPT !.sqs[getQueueWithId(e.sqs, ADMIN_QUEUE_ID)] =
                       setMappedQueue(Queue(@.QueueSize, ADMIN_QUEUE_ID, "SQT", r.ASQB),
                                      @.MappedQueue)]

\* Lines 83-93 of Controller::checkForChanges: the admin submission queue is
\* constructed, or moved to the base address ASQ holds. r is CSTS, ASQ and ACQ,
\* a is AQA.
withSubmissionQueue(e, r, a) ==
    IF Len(e.sqs) = 0
    THEN [e EXCEPT !.sqs = Append(@, Queue(a.ASQS + 1, ADMIN_QUEUE_ID, "SQT", r.ASQB))]
    ELSE [e EXCEPT !.sqs[getQueueWithId(e.sqs, ADMIN_QUEUE_ID)] =
                       setMemoryAddress(@, r.ASQB)]

\* lines 101-117 without line 112: the submission queue is not linked back.
withCompletionQueue_NoBackLink(e, r, a) ==
    IF Len(e.cqs) = 0
    THEN [e EXCEPT !.cqs = Append(@, setMappedQueue(Queue(a.ACQS + 1, ADMIN_QUEUE_ID,
                                                          "CQH", r.ACQB),
                                                    ADMIN_QUEUE_ID + 1))]
    ELSE [e EXCEPT !.cqs[getQueueWithId(e.cqs, ADMIN_QUEUE_ID)] =
                       setMemoryAddress(@, r.ACQB)]

\* Lines 101-117: the admin completion queue is constructed and the two queues are
\* linked to each other, or it is moved to the base address ACQ holds. A queue's
\* MappedQueue is the place of the other queue in its registry (a pointer in the code).
withCompletionQueue(e, r, a) ==
    IF Len(e.cqs) = 0
    THEN LET AdminCompletionQueue ==
                 setMappedQueue(Queue(a.ACQS + 1, ADMIN_QUEUE_ID, "CQH", r.ACQB),
                                ADMIN_QUEUE_ID + 1)
             pushed == [e EXCEPT !.cqs = Append(@, AdminCompletionQueue)]
             adminSubQ == getQueueWithId(pushed.sqs, ADMIN_QUEUE_ID)
         IN  [pushed EXCEPT !.sqs[adminSubQ] = setMappedQueue(@, ADMIN_QUEUE_ID + 1)]
    ELSE [e EXCEPT !.cqs[getQueueWithId(e.cqs, ADMIN_QUEUE_ID)] =
                       setMemoryAddress(@, r.ACQB)]

\* lines 66-117 without the return of lines 95-98.
materialize_DrainsUnpaired(e, r, a) ==
    IF r.RDY = 0 \/ r.ASQB = 0
    THEN [drain |-> FALSE, e |-> e]
    ELSE IF r.ACQB = 0
    THEN [drain |-> TRUE, e |-> withSubmissionQueue(e, r, a)]
    ELSE [drain |-> TRUE, e |-> withCompletionQueue(withSubmissionQueue(e, r, a), r, a)]

\* Lines 66-117 of Controller::checkForChanges: the readiness gate and the
\* materialization or rebase of the admin queues.
\* [drain, e]: drain is FALSE when the call has returned early.
materialize(e, r, a) ==
    IF r.RDY = 0 \/ r.ASQB = 0
    THEN [drain |-> FALSE, e |-> e]
    ELSE IF r.ACQB = 0
    THEN [drain |-> FALSE, e |-> withSubmissionQueue(e, r, a)]
    ELSE [drain |-> TRUE, e |-> withCompletionQueue(withSubmissionQueue(e, r, a), r, a)]

\* lines 123-133 with the result of setTailPointer ignored: the doorbell value is
\* the new tail, whatever it is.
observe_TakesAnyTail(e, sqi, sqt) ==
    LET sq == e.sqs[sqi]
        cqi == sq.MappedQueue
    IN  IF sqt = sq.TailPointer
        THEN e
        ELSE [e EXCEPT !.sqs[sqi].TailPointer = sqt,
                       !.cqs[cqi] = setTailPointer(@, sqt).queue,
                       !.pc = IF sq.HeadPointer = sqt THEN "idle" ELSE "drain"]

\* lines 123-133 with the tail stored into the completion queue as it is.
observe_CopiesTail(e, sqi, sqt) ==
    LET sq == e.sqs[sqi]
        set == setTailPointer(sq, sqt)
        cqi == sq.MappedQueue
    IN  IF sqt = sq.TailPointer \/ ~set.ok
        THEN e
        ELSE [e EXCEPT !.sqs[sqi] = set.queue,
                       !.cqs[cqi].TailPointer = set.queue.TailPointer,
                       !.pc = IF set.queue.HeadPointer = set.queue.TailPointer
                              THEN "idle" ELSE "drain"]

\* Lines 123-133 for the queue at index sqi, sqt the value of its tail doorbell:
\* the doorbell is compared with the internal tail and the new tail is set, in the
\* mapped completion queue as well (whose result the code ignores).
observe(e, sqi, sqt) ==
    LET sq == e.sqs[sqi]
        set == setTailPointer(sq, sqt)
        cqi == sq.MappedQueue
    IN  IF sqt = sq.TailPointer \/ ~set.ok
        THEN e
        ELSE IF cqi = NULL
        THEN [e EXCEPT !.crashed = TRUE]
        ELSE [e EXCEPT !.sqs[sqi] = set.queue,
                       !.cqs[cqi] = setTailPointer(@, set.queue.TailPointer).queue,
                       !.pc = IF set.queue.HeadPointer = set.queue.TailPointer
                              THEN "idle" ELSE "drain"]

\* checkForChanges without the readiness gate of line 72.
checkForChanges_IgnoresReady(e, r, a, sqt) ==
    LET m == materialize(e, [r EXCEPT !.RDY = 1], a)
    IN  IF m.drain /\ Len(m.e.sqs) > 0 THEN observe(m.e, 1, sqt) ELSE m.e

\* Controller::checkForChanges up to the while loop. The registry never holds a
\* queue besides the admin one (push_back happens only into an empty registry), so
\* the for loop visits one queue.
checkForChanges(e, r, a, sqt) ==
    LET m == materialize(e, r, a)
    IN  IF m.drain /\ Len(m.e.sqs) > 0 THEN observe(m.e, 1, sqt) ELSE m.e

\* controllerResetCallback that leaves the CID map as it is.
controllerResetCallback_KeepsCids(e) ==
    [e EXCEPT !.sqs = SelectSeq(@, LAMBDA q : q.QueueId = ADMIN_QUEUE_ID),
              !.cqs = SelectSeq(@, LAMBDA q : q.QueueId = ADMIN_QUEUE_ID),
              !.phase = EmptyMap,
              !.accepted = IF @ = NotKept THEN @ ELSE {}]

\* controllerResetCallback that rewinds the queues it keeps.
controllerResetCallback_RewindsQueues(e) ==
    [e EXCEPT !.sqs = [i \in 1 .. Len(@) |-> [@[i] EXCEPT !.HeadPointer = 0,
                                                          !.TailPointer = 0]],
              !.cqs = [i \in 1 .. Len(@) |-> [@[i] EXCEPT !.HeadPointer = 0,
                                                          !.TailPointer = 0]],
              !.cids = EmptyMap,
              !.phase = EmptyMap,
              !.accepted = IF @ = NotKept THEN @ ELSE {}]

\* Controller::controllerResetCallback.
controllerResetCallback(e) ==
    [e EXCEPT !.sqs = SelectSeq(@, LAMBDA q : q.QueueId = ADMIN_QUEUE_ID),
              !.cqs = SelectSeq(@, LAMBDA q : q.QueueId = ADMIN_QUEUE_ID),
              !.cids = EmptyMap,
              !.phase = EmptyMap,
              !.accepted = IF @ = NotKept THEN @ ELSE {}]

\* ------------------------------------------------------ the machine

\* The state after construction, but for the history variables posts and accepted.
Constructed ==
    /\ regs = [RDY |-> 0, ASQB |-> 0, ACQB |-> 0]
    /\ aqa = <<>>
    /\ SQT = 0
    /\ CQH = 0
    /\ ValidSubmissionQueues = <<>>
    /\ ValidCompletionQueues = <<>>
    /\ SubmissionQueueIdToCommandIdentifiers = EmptyMap
    /\ QueueToPhaseTag = EmptyMap
    /\ crashed = FALSE
    /\ pc = "idle"
    /\ op = "init"
    /\ consumed = <<>>
    /\ posted = <<>>
    /\ payloads = <<>>
    /\ rejected = {}

\* The completions are counted in SpecFresh and SpecCounted (a reset leaves the
\* head of the admin CQ, and so the count, where it is); the CIDs accepted since
\* the last reset are recorded in SpecHistory.
Init == Constructed /\ posts = -1 /\ accepted = NotKept

InitFresh == Constructed /\ posts = 0 /\ accepted = NotKept

InitHistory == Constructed /\ posts = -1 /\ accepted = {}

\* The engine's state inside a pass of the while loop: the write logs are those
\* of the pass.
Pass ==
    [Engine EXCEPT !.consumed = consumed, !.posted = posted, !.payloads = payloads,
                   !.rejected = rejected]

\* The engine's variables after a handler has returned e.
Becomes(e) ==
    /\ ValidSubmissionQueues' = e.sqs
    /\ ValidCompletionQueues' = e.cqs
    /\ SubmissionQueueIdToCommandIdentifiers' = e.cids
    /\ QueueToPhaseTag' = e.phase
    /\ CQH' = e.CQH
    /\ crashed' = e.crashed
    /\ pc' = e.pc
    /\ consumed' = e.consumed
    /\ posted' = e.posted
    /\ payloads' = e.payloads
    /\ posts' = e.posts
    /\ rejected' = e.rejected
    /\ accepted' = e.accepted

\* A write of the host or of the register collaborator, between two calls.
HostWrote ==
    /\ ~crashed
    /\ pc = "idle"
    /\ op' = "host"
    /\ consumed' = <<>>
    /\ posted' = <<>>
    /\ payloads' = <<>>
    /\ rejected' = {}
    /\ aqa' = <<>>
    /\ UNCHANGED <<ValidSubmissionQueues, ValidCompletionQueues,
                   SubmissionQueueIdToCommandIdentifiers, QueueToPhaseTag,
                   crashed, pc, posts, accepted>>

SetReady ==
    /\ \E v \in {0, 1} \ {regs.RDY} : regs' = [regs EXCEPT !.RDY = v]
    /\ HostWrote
    /\ UNCHANGED <<SQT, CQH>>

ProgramASQ ==
    /\ \E v \in BaseAddresses \ {regs.ASQB} : regs' = [regs EXCEPT !.ASQB = v]
    /\ HostWrote
    /\ UNCHANGED <<SQT, CQH>>

ProgramACQ ==
    /\ \E v \in BaseAddresses \ {regs.ACQB} : regs' = [regs EXCEPT !.ACQB = v]
    /\ HostWrote
    /\ UNCHANGED <<SQT, CQH>>

RingSubmissionDoorbell ==
    /\ \E v \in DoorbellValues \ {SQT} : SQT' = v
    /\ HostWrote
    /\ UNCHANGED <<regs, CQH>>

\* A call of checkForChanges begins (waitForChangeLoop in single-threaded mode).
\* AQA is read only where an admin queue is constructed (lines 85 and 103) and the
\* host may rewrite it before any call, so its content is an input of the step.
Begin ==
    /\ ~crashed
    /\ pc = "idle"
    /\ \E a \in IF Len(ValidSubmissionQueues) = 0 \/ Len(ValidCompletionQueues) = 0
               THEN [ASQS : QueueSizes, ACQS : QueueSizes]
               ELSE {[ASQS |-> 1, ACQS |-> 1]} :
           /\ Becomes(checkForChanges(Engine, regs, a, SQT))
           /\ aqa' = IF Len(ValidSubmissionQueues') + Len(ValidCompletionQueues')
                        > Len(ValidSubmissionQueues) + Len(ValidCompletionQueues)
                     THEN a ELSE <<>>
    /\ op' = "tick"
    /\ UNCHANGED <<regs, SQT>>

\* One pass of the while loop, in either build.
Drain ==
    /\ ~crashed
    /\ pc = "drain"
    /\ \E input \in Inputs, ndebug \in BOOLEAN : Becomes(drain(Engine, 1, input, ndebug))
    /\ op' = "drain"
    /\ aqa' = <<>>
    /\ UNCHANGED <<regs, SQT>>

\* The register collaborator calls controllerResetCallback.
Reset ==
    /\ ~crashed
    /\ pc = "idle"
    /\ Becomes([controllerResetCallback(Engine) EXCEPT !.rejected = rejected])
    /\ op' = "reset"
    /\ aqa' = <<>>
    /\ UNCHANGED <<regs, SQT>>

Next ==
    \/ SetReady
    \/ ProgramASQ
    \/ ProgramACQ
    \/ RingSubmissionDoorbell
    \/ Begin
    \/ Drain
    \/ Reset

Spec == Init /\ [][Next]_vars

\* The engine from a fresh controller as long as no controller reset happens.
NextFresh ==
    \/ SetReady
    \/ ProgramASQ
    \/ ProgramACQ
    \/ RingSubmissionDoorbell
    \/ Begin
    \/ Drain

SpecFresh == InitFresh /\ [][NextFresh]_vars

\* A pass of the while loop in the steps of postCompletion: the entry is stored
\* (lines 144-274), the head of the completion queue moves (line 276), the
\* doorbell is written and the pass ends (lines 279-280 and 138).
Store ==
    /\ ~crashed
    /\ pc = "drain"
    /\ \E input \in Inputs, ndebug \in BOOLEAN : Becomes(store(Engine, 1, input, ndebug))
    /\ op' = IF pc' = "stored" THEN "store" ELSE "drain"
    /\ aqa' = <<>>
    /\ UNCHANGED <<regs, SQT>>

Move ==
    /\ pc = "stored"
    /\ Becomes([moveHead(Pass, ValidSubmissionQueues[1].MappedQueue) EXCEPT !.pc = "moved"])
    /\ op' = "move"
    /\ UNCHANGED <<regs, SQT, aqa>>

Finish ==
    /\ pc = "moved"
    /\ Becomes(advance(ringDoorbell(Pass, ValidSubmissionQueues[1].MappedQueue), 1))
    /\ op' = "drain"
    /\ UNCHANGED <<regs, SQT, aqa>>

NextSteps ==
    \/ SetReady
    \/ ProgramASQ
    \/ ProgramACQ
    \/ RingSubmissionDoorbell
    \/ Begin
    \/ Store
    \/ Move
    \/ Finish
    \/ Reset

SpecSteps == Init /\ [][NextSteps]_vars

\* Threaded mode (SINGLE_THREADED not defined): checkForChanges runs on the
\* DoorbellWatcher thread (line 32) while the host and the register collaborator
\* run on theirs; neither checkForChanges nor controllerResetCallback takes a
\* lock. The registers are read at the beginning of a call only, so the writes
\* that can fall between two passes of the while loop and matter are those of the
\* tail doorbell and the reset.
RingDuringPass ==
    /\ ~crashed
    /\ pc = "drain"
    /\ \E v \in DoorbellValues \ {SQT} : SQT' = v
    /\ op' = "host"
    /\ consumed' = <<>>
    /\ posted' = <<>>
    /\ payloads' = <<>>
    /\ rejected' = {}
    /\ aqa' = <<>>
    /\ UNCHANGED <<regs, CQH, ValidSubmissionQueues, ValidCompletionQueues,
                   SubmissionQueueIdToCommandIdentifiers, QueueToPhaseTag,
                   crashed, pc, posts, accepted>>

ResetDuringPass ==
    /\ ~crashed
    /\ pc = "drain"
    /\ Becomes([controllerResetCallback(Engine) EXCEPT !.rejected = rejected])
    /\ op' = "reset"
    /\ aqa' = <<>>
    /\ UNCHANGED <<regs, SQT>>

NextThreaded ==
    \/ Next
    \/ RingDuringPass
    \/ ResetDuringPass

SpecThreaded == Init /\ [][NextThreaded]_vars

\* The machine with the completions counted.
SpecCounted == InitFresh /\ [][Next]_vars

\* The machine with the record of the CIDs accepted since the last reset.
SpecHistory == InitHistory /\ [][Next]_vars

\* ------------------------------------------------------- the claims

\* The admin queues, where they are materialized.
AdminSQ == ValidSubmissionQueues[1]
AdminCQ == ValidCompletionQueues[1]

\* The last step stored a completion with this status code.
Answered(sc) == Len(posted) = 1 /\ posted[1].entry.SC = sc

\* C1: every pass of the drain loop consumes the command in the slot at the SQ
\* head, moves the head by one slot (with wrap) and posts exactly one completion,
\* into the paired CQ, that echoes the CID of the command consumed: so the CIDs of
\* the completions are the CIDs of the commands consumed, in the same order.
C1_CompletionsFollowConsumption ==
    [][(op' = "drain" /\ ~crashed') =>
          /\ Len(consumed') = 1
          /\ consumed'[1].slot = AdminSQ.HeadPointer
          /\ AdminSQ'.HeadPointer = (AdminSQ.HeadPointer + 1) % AdminSQ.QueueSize
          /\ Len(posted') = 1
          /\ posted'[1].entry.CID = consumed'[1].CID
          /\ posted'[1].slot = AdminCQ.HeadPointer
          /\ posted'[1].address = AdminCQ.MemoryAddress]_vars

\* C2: from a fresh admin pair and with no controller reset, the k-th completion
\* posted into a CQ of n slots lands in slot (k-1) mod n and carries P = 1 when
\* floor((k-1)/n) is even and P = 0 when it is odd. (k of a log entry is (k-1) mod 2n.)
C2_PhaseTagByPass ==
    \A i \in 1 .. Len(posted) :
        /\ posted[i].k >= 0
        /\ posted[i].slot = posted[i].k % AdminCQ.QueueSize
        /\ (posted[i].entry.P = 1) <=> (posted[i].k < AdminCQ.QueueSize)
        /\ posted[i].entry.P \in {0, 1}

\* C2 witness: a completion of the second pass over the ring has been posted, with
\* the tag flipped to 0.
C2_SecondPassPosted ==
    /\ Len(posted) = 1
    /\ posted[1].k >= AdminCQ.QueueSize
    /\ posted[1].entry.P = 0

\* C3: the completion posted for the command consumed from SQ slot h carries
\* SQHD = (h+1) mod slot_count.
C3_SQHDIsNextSlot ==
    \A i \in 1 .. Len(posted) :
        posted[i].entry.SQHD = (posted[i].from.slot + 1) % AdminSQ.QueueSize

\* The CID set of the admin SQ before a step, and whether it is saturated.
Seen == ADMIN_QUEUE_ID \in DOMAIN SubmissionQueueIdToCommandIdentifiers
AdminCids == SubmissionQueueIdToCommandIdentifiers[ADMIN_QUEUE_ID]
Saturated == Seen /\ Cardinality(AdminCids) = MAX_COMMAND_IDENTIFIER

\* What C4 says of a pass of the drain loop: one completion, with Command ID
\* Conflict and Do Not Retry, echoing the CID; no command body and no PRP write;
\* the CID set as it was; the SQ head one slot further.
ConflictOutcome ==
    /\ Len(consumed') = 1
    /\ Answered(COMMAND_ID_CONFLICT)'
    /\ posted'[1].entry.DNR = 1
    /\ posted'[1].entry.CID = consumed'[1].CID
    /\ posted'[1].entry.SQID = ADMIN_QUEUE_ID
    /\ payloads' = <<>>
    /\ SubmissionQueueIdToCommandIdentifiers' = SubmissionQueueIdToCommandIdentifiers
    /\ AdminSQ'.HeadPointer = (AdminSQ.HeadPointer + 1) % AdminSQ.QueueSize

\* C4, as stated: a command whose CID was accepted on the SQ since the last
\* controller reset, consumed while the CID set is not saturated, gets the
\* conflict outcome.
C4_AcceptedSinceResetConflicts ==
    [][(op' = "drain" /\ consumed' # <<>> /\ consumed'[1].CID \in accepted
            /\ ~Saturated)
       => ConflictOutcome]_vars

\* C4, amended: a command whose CID is in the SQ's CID set (accepted since the last
\* controller reset and since the set was last cleared on saturation), consumed
\* while the set is not saturated, gets the conflict outcome.
C4_CidInSetConflicts ==
    [][(op' = "drain" /\ consumed' # <<>> /\ Seen /\ consumed'[1].CID \in AdminCids
            /\ ~Saturated)
       => ConflictOutcome]_vars

\* C4 witness: a pass has answered with Command ID Conflict a CID that is in the
\* set, the set not saturated.
C4_ConflictPosted ==
    /\ op = "drain"
    /\ Answered(COMMAND_ID_CONFLICT)
    /\ consumed[1].CID \in AdminCids
    /\ ~Saturated

\* The decision of is_valid_cid in the order C5 gives: unseen SQ; else a CID the
\* set contains is rejected, whatever the cardinality; else a saturated set is
\* cleared; the CID is inserted.
MembershipFirst(set, seen, cid) ==
    IF ~seen THEN [ok |-> TRUE, set |-> {cid}]
    ELSE IF cid \in set THEN [ok |-> FALSE, set |-> set]
    ELSE IF Cardinality(set) = MAX_COMMAND_IDENTIFIER THEN [ok |-> TRUE, set |-> {cid}]
    ELSE [ok |-> TRUE, set |-> set \cup {cid}]

\* The decision with the saturation test first: accepted unless the set is not
\* saturated and contains the CID; an unseen or saturated set becomes {cid}.
SaturationFirst(set, seen, cid) ==
    [ok |-> ~seen \/ Cardinality(set) = MAX_COMMAND_IDENTIFIER \/ cid \notin set,
     set |-> IF ~seen \/ Cardinality(set) = MAX_COMMAND_IDENTIFIER
             THEN {cid} ELSE set \cup {cid}]

\* A pass of the drain loop has decided on the CID as d says.
Decided(d) ==
    /\ Seen'
    /\ AdminCids' = d.set
    /\ Cardinality(AdminCids') <= MAX_COMMAND_IDENTIFIER
    /\ d.ok <=> ~Answered(COMMAND_ID_CONFLICT)'

\* C5, as stated: every pass of the drain loop decides on the CID of the command
\* it consumes as the three cases say, in the order given, and the cardinality of
\* the set never exceeds MAX_CID.
C5_DecidesMembershipFirst ==
    [][(op' = "drain" /\ consumed' # <<>>)
       => Decided(MembershipFirst(IF Seen THEN AdminCids ELSE {}, Seen,
                                  consumed'[1].CID))]_vars

\* C5, amended: the saturation test comes before the membership test, so a
\* saturated set is cleared and the CID accepted, though the set contained it;
\* the cardinality of the set never exceeds MAX_CID.
C5_DecidesSaturationFirst ==
    [][(op' = "drain" /\ consumed' # <<>>)
       => Decided(SaturationFirst(IF Seen THEN AdminCids ELSE {}, Seen,
                                  consumed'[1].CID))]_vars

\* C5 witness: a saturated set has just been cleared: the pass consumed a command
\* after the set had held every CID, and the set holds that CID alone.
C5_ClearedOnSaturation ==
    /\ op = "drain"
    /\ consumed # <<>>
    /\ accepted = CIDs
    /\ AdminCids = {consumed[1].CID}
    /\ ~Answered(COMMAND_ID_CONFLICT)

\* C6: after controller_reset both registries hold nothing but the entry with id
\* 0 (if there was one) and both maps are empty; a CID rejected as a conflict
\* before the reset is accepted after it, as is the first CID of any command.
C6_ResetForgets ==
    [][/\ op' = "reset" =>
            /\ \A i \in 1 .. Len(ValidSubmissionQueues') :
                   ValidSubmissionQueues'[i].QueueId = ADMIN_QUEUE_ID
            /\ \A i \in 1 .. Len(ValidCompletionQueues') :
                   ValidCompletionQueues'[i].QueueId = ADMIN_QUEUE_ID
            /\ Len(ValidSubmissionQueues') = Len(ValidSubmissionQueues)
            /\ Len(ValidCompletionQueues') = Len(ValidCompletionQueues)
            /\ SubmissionQueueIdToCommandIdentifiers' = EmptyMap
            /\ QueueToPhaseTag' = EmptyMap
            /\ \A c \in rejected' :
                   isValidCommandIdentifier(SubmissionQueueIdToCommandIdentifiers', c,
                                            ADMIN_QUEUE_ID).ok
       /\ (op' = "drain" /\ consumed' # <<>>
               /\ SubmissionQueueIdToCommandIdentifiers = EmptyMap) =>
            ~Answered(COMMAND_ID_CONFLICT)']_vars

\* C6 witness: a reset has followed the rejection of a CID, with the admin pair
\* materialized.
C6_ResetAfterConflict ==
    /\ op = "reset"
    /\ rejected # {}
    /\ Len(ValidSubmissionQueues) = 1
    /\ Len(ValidCompletionQueues) = 1

\* A call of checkForChanges has just begun in a state where CSTS.RDY = 1 and both
\* bases are nonzero, and no earlier call has seen that (every such call leaves a
\* completion queue behind, which nothing removes).
FirstObservation ==
    /\ op' = "tick"
    /\ regs.RDY = 1 /\ regs.ASQB # 0 /\ regs.ACQB # 0
    /\ Len(ValidCompletionQueues) = 0

\* Exactly one admin SQ and one admin CQ, at the programmed bases, linked to each
\* other.
AdminPair ==
    /\ Len(ValidSubmissionQueues) = 1 /\ Len(ValidCompletionQueues) = 1
    /\ AdminSQ.QueueId = ADMIN_QUEUE_ID /\ AdminCQ.QueueId = ADMIN_QUEUE_ID
    /\ AdminSQ.MemoryAddress = regs.ASQB /\ AdminCQ.MemoryAddress = regs.ACQB
    /\ AdminSQ.MappedQueue = 1 /\ AdminCQ.MappedQueue = 1

\* Every queue that has a paired queue is the paired queue of that one.
PairingConsistent ==
    /\ \A i \in 1 .. Len(ValidSubmissionQueues) :
           LET m == ValidSubmissionQueues[i].MappedQueue
           IN  m # NULL => /\ m \in 1 .. Len(ValidCompletionQueues)
                           /\ ValidCompletionQueues[m].MappedQueue = i
    /\ \A i \in 1 .. Len(ValidCompletionQueues) :
           LET m == ValidCompletionQueues[i].MappedQueue
           IN  m # NULL => /\ m \in 1 .. Len(ValidSubmissionQueues)
                           /\ ValidSubmissionQueues[m].MappedQueue = i

engine == <<ValidSubmissionQueues, ValidCompletionQueues,
            SubmissionQueueIdToCommandIdentifiers, QueueToPhaseTag, CQH, crashed, pc>>
NothingStored == consumed' = <<>> /\ posted' = <<>> /\ payloads' = <<>>

\* C8: a call of checkForChanges made while CSTS.RDY = 0 has no effect: no queue
\* is created or rebased, no head or tail moves, no command is consumed, no
\* completion posted, no doorbell written, neither map changed.
C8_ReadinessGate ==
    [][(op' = "tick" /\ regs.RDY = 0) => (UNCHANGED engine /\ NothingStored)]_vars

\* C8 witness: a call was made with RDY = 0 while the pair existed, ASQ held a
\* new base and a new tail was in the doorbell.
C8_GatedWithWorkPending ==
    /\ op = "tick"
    /\ regs.RDY = 0
    /\ Len(ValidSubmissionQueues) = 1 /\ Len(ValidCompletionQueues) = 1
    /\ regs.ASQB \notin {0, AdminSQ.MemoryAddress}
    /\ SQT # AdminSQ.TailPointer /\ SQT < AdminSQ.QueueSize

\* No SQ tail doorbell differs from the internal tail of its SQ.
NoDoorbellDifference ==
    \A i \in 1 .. Len(ValidSubmissionQueues) : SQT = ValidSubmissionQueues[i].TailPointer

\* The queue but for its memory address.
Anchored(q) == [q EXCEPT !.MemoryAddress = 0]

\* The registry but for the memory addresses.
AnchoredAll(queues) == [i \in 1 .. Len(queues) |-> Anchored(queues[i])]

\* C9, as stated: a call of checkForChanges with no doorbell difference changes no
\* queue, neither map, no CQ slot, no doorbell and no host memory; so the second
\* of two calls with no host write between them changes nothing.
C9_QuietCallIsNoOp ==
    [][/\ (op' = "tick" /\ NoDoorbellDifference) => (UNCHANGED engine /\ NothingStored)
       /\ (op' = "tick" /\ op \in {"tick", "drain"}) =>
              (UNCHANGED engine /\ NothingStored)]_vars

\* The queue but for its memory address and its paired queue.
Kept(q) == [q EXCEPT !.MemoryAddress = 0, !.MappedQueue = NULL]

\* C9, amended: a call with the SQ tail doorbell equal to the admin SQ's tail (to
\* 0 where the SQ is not materialized yet) moves no head and no tail, changes
\* neither map, no CQ slot, no doorbell and no host memory; all it may do is
\* materialize a missing admin queue and move a queue to a reprogrammed base. The
\* second of two calls with no host write between them changes nothing.
C9_QuietCall ==
    [][/\ (op' = "tick" /\ NoDoorbellDifference
               /\ (Len(ValidSubmissionQueues) = 0 => SQT = 0)) =>
            /\ NothingStored
            /\ UNCHANGED <<SubmissionQueueIdToCommandIdentifiers, QueueToPhaseTag,
                           CQH, crashed, pc>>
            /\ Len(ValidSubmissionQueues') \in {Len(ValidSubmissionQueues), 1}
            /\ Len(ValidCompletionQueues') \in {Len(ValidCompletionQueues), 1}
            /\ \A i \in 1 .. Len(ValidSubmissionQueues') :
                   Kept(ValidSubmissionQueues'[i]) =
                       (IF i <= Len(ValidSubmissionQueues)
                        THEN Kept(ValidSubmissionQueues[i])
                        ELSE Kept(Queue(aqa'.ASQS + 1, ADMIN_QUEUE_ID, "SQT", 0)))
            /\ \A i \in 1 .. Len(ValidCompletionQueues') :
                   Kept(ValidCompletionQueues'[i]) =
                       (IF i <= Len(ValidCompletionQueues)
                        THEN Kept(ValidCompletionQueues[i])
                        ELSE Kept(Queue(aqa'.ACQS + 1, ADMIN_QUEUE_ID, "CQH", 0)))
       /\ (op' = "tick" /\ op \in {"tick", "drain"}) =>
              (UNCHANGED engine /\ NothingStored)]_vars

\* C9 witness: a second call has followed a call that drained commands, with no
\* host write between them.
C9_SecondCall ==
    /\ op = "tick"
    /\ Len(ValidSubmissionQueues) = 1 /\ Len(ValidCompletionQueues) = 1
    /\ AdminSQ.HeadPointer # 0
    /\ SQT = AdminSQ.TailPointer
    /\ pc = "idle"

\* A call of checkForChanges begins with the admin SQ materialized and ASQ or ACQ
\* holding a nonzero value.
Reprogrammed ==
    /\ op' = "tick"
    /\ Len(ValidSubmissionQueues) = 1
    /\ regs.ASQB # 0 \/ (Len(ValidCompletionQueues) = 1 /\ regs.ACQB # 0)

\* C10, as stated: the call after ASQ or ACQ has been reprogrammed changes only the
\* memory address of the queue that exists: head, tail, slot count, id and
\* pairing, the registry sizes and both maps stay, no second admin queue is
\* created, and the same value changes nothing.
C10_RebaseOnly ==
    [][Reprogrammed =>
          /\ AnchoredAll(ValidSubmissionQueues') = AnchoredAll(ValidSubmissionQueues)
          /\ AnchoredAll(ValidCompletionQueues') = AnchoredAll(ValidCompletionQueues)
          /\ UNCHANGED <<SubmissionQueueIdToCommandIdentifiers, QueueToPhaseTag>>
          /\ AdminSQ'.MemoryAddress \in {AdminSQ.MemoryAddress, regs.ASQB}]_vars

\* C10, amended: that holds of a call that finds no new value in the SQ tail
\* doorbell and that does not materialize the other admin queue; with RDY = 1 and
\* ASQB nonzero the SQ is at ASQB afterwards, with ACQB nonzero as well, the CQ is
\* at ACQB.
C10_RebaseOnlyWhenQuiet ==
    [][(Reprogrammed /\ SQT = AdminSQ.TailPointer
            /\ Len(ValidCompletionQueues') = Len(ValidCompletionQueues)) =>
          /\ AnchoredAll(ValidSubmissionQueues') = AnchoredAll(ValidSubmissionQueues)
          /\ AnchoredAll(ValidCompletionQueues') = AnchoredAll(ValidCompletionQueues)
          /\ UNCHANGED <<SubmissionQueueIdToCommandIdentifiers, QueueToPhaseTag,
                         CQH, crashed, pc>>
          /\ NothingStored
          /\ AdminSQ'.MemoryAddress =
                 (IF regs.RDY = 1 /\ regs.ASQB # 0
                  THEN regs.ASQB ELSE AdminSQ.MemoryAddress)
          /\ Len(ValidCompletionQueues) = 1 =>
                 AdminCQ'.MemoryAddress =
                     (IF regs.RDY = 1 /\ regs.ASQB # 0 /\ regs.ACQB # 0
                      THEN regs.ACQB ELSE AdminCQ.MemoryAddress)]_vars

\* C10 witness: a call has put the admin SQ, its head and tail not 0 and CIDs
\* recorded, at the base ASQ holds, another one than the CQ's.
C10_Rebased ==
    /\ op = "tick"
    /\ Len(ValidSubmissionQueues) = 1 /\ Len(ValidCompletionQueues) = 1
    /\ AdminSQ.HeadPointer # 0
    /\ AdminSQ.TailPointer = SQT
    /\ AdminSQ.MemoryAddress = regs.ASQB
    /\ AdminCQ.MemoryAddress = regs.ACQB
    /\ regs.ASQB # regs.ACQB
    /\ SubmissionQueueIdToCommandIdentifiers # EmptyMap

\* The head and the tail of a queue.
Pointers(q) == <<q.HeadPointer, q.TailPointer>>

\* C11: an admin command that is neither IDENTIFY nor KEEP_ALIVE does not stop the
\* engine: the pass of the drain loop that meets it posts one completion with
\* status Invalid Command Opcode and DNR = 1 and moves the SQ head by one slot.
C11_UnknownOpcodeAnswered ==
    [][op' = "drain" =>
          /\ ~crashed'
          /\ (/\ consumed' # <<>>
              /\ consumed'[1].OPC \notin {IDENTIFY, KEEP_ALIVE}
              /\ consumed'[1].memoryPageSize # 0
              /\ ~Answered(COMMAND_ID_CONFLICT)') =>
                 /\ Answered(INVALID_COMMAND_OPCODE)'
                 /\ posted'[1].entry.DNR = 1
                 /\ AdminSQ'.HeadPointer =
                        (AdminSQ.HeadPointer + 1) % AdminSQ.QueueSize]_vars

\* C12: a call of checkForChanges that finds a value >= slot count in the SQ tail
\* doorbell leaves the SQ and its CQ as they were (as constructed, where the call
\* has constructed them), changes neither map nor the CQ ring, consumes nothing
\* and posts nothing.
C12_InvalidTailSkipped ==
    [][(op' = "tick" /\ Len(ValidSubmissionQueues') = 1
            /\ SQT >= AdminSQ'.QueueSize) =>
          /\ NothingStored
          /\ UNCHANGED <<SubmissionQueueIdToCommandIdentifiers, QueueToPhaseTag,
                         CQH, crashed, pc>>
          /\ Pointers(AdminSQ') = (IF Len(ValidSubmissionQueues) = 1
                                   THEN Pointers(AdminSQ) ELSE <<0, 0>>)
          /\ Len(ValidCompletionQueues') = 1 =>
                 Pointers(AdminCQ') = (IF Len(ValidCompletionQueues) = 1
                                       THEN Pointers(AdminCQ) ELSE <<0, 0>>)]_vars

\* C12 witness: a call has found a value >= slot count in the doorbell of the
\* admin SQ, whose head and tail were not 0.
C12_InvalidTailSeen ==
    /\ op = "tick"
    /\ regs.RDY = 1
    /\ AdminPair
    /\ SQT >= AdminSQ.QueueSize
    /\ AdminSQ.HeadPointer # 0
    /\ AdminSQ.TailPointer # 0

\* C14: no pass of the drain loop moves the SQ head past a command while the
\* memory page size reads 0: no command is consumed without a completion.
C14_ZeroPageSizeDefers ==
    [][op' = "drain" =>
          \A i \in 1 .. Len(consumed') :
              consumed'[i].memoryPageSize = 0 => posted' # <<>>]_vars

\* C13: the doorbell of the completion queue is written only by the last step of a
\* post, after the entry has been stored: the slot before the value written, at
\* the address of the queue, holds the entry composed for the command (SQID, SQHD,
\* CID, P, status), and no other step stores an entry or moves that doorbell;
\* between two posts the doorbell equals the head of the completion queue.
C13_EntryBeforeDoorbell ==
    [][/\ CQH' # CQH =>
            /\ pc = "moved"
            /\ posted' = posted
            /\ Len(posted) = 1
            /\ posted[1].address = AdminCQ.MemoryAddress
            /\ posted[1].slot = (CQH' - 1) % AdminCQ.QueueSize
            /\ posted[1].entry.SQID = ADMIN_QUEUE_ID
            /\ posted[1].entry.CID = consumed[1].CID
            /\ posted[1].entry.P = (IF QueueToPhaseTag[ADMIN_QUEUE_ID] THEN 1 ELSE 0)
            /\ posted[1].entry.SQHD \in 0 .. AdminSQ.QueueSize - 1
            /\ posted[1].entry.SC \in {0, COMMAND_ID_CONFLICT}
       /\ (posted' # posted /\ posted' # <<>>) =>
            /\ pc = "drain"
            /\ CQH' = CQH
            /\ posted'[1].slot = AdminCQ.HeadPointer
            /\ ValidCompletionQueues' = ValidCompletionQueues
       /\ (pc' \in {"idle", "drain"} /\ Len(ValidCompletionQueues') = 1) =>
            CQH' = AdminCQ'.HeadPointer]_vars

\* C13 witness: a post into the last slot of the ring has ended, the doorbell
\* written with the head wrapped to 0.
C13_DoorbellAfterLastSlot ==
    /\ op = "drain"
    /\ Len(posted) = 1
    /\ posted[1].slot = AdminCQ.QueueSize - 1
    /\ CQH = 0
    /\ AdminCQ.HeadPointer = 0

\* C15: in threaded mode controllerResetCallback never takes effect while a call
\* of checkForChanges is in progress.
C15_ResetBetweenCalls ==
    [][op' = "reset" => pc = "idle"]_vars

\* C17: a call that accepts a new tail t enters the drain loop with tail = t; every
\* pass of the loop moves the head one slot towards the tail, which stays where it
\* is whatever is written to the doorbell meanwhile, and the loop ends when the
\* head has reached the tail and not before: the call consumes (t - h) mod slot
\* count commands and returns with head = tail = t.
C17_DrainRunsToTail ==
    [][/\ op' = "drain" =>
            /\ ~crashed'
            /\ AdminSQ'.TailPointer = AdminSQ.TailPointer
            /\ AdminSQ'.HeadPointer = (AdminSQ.HeadPointer + 1) % AdminSQ.QueueSize
            /\ Len(consumed') = 1
            /\ pc' = "idle" <=> AdminSQ'.HeadPointer = AdminSQ'.TailPointer
       /\ (op' = "tick" /\ pc' = "drain") =>
            /\ AdminSQ'.TailPointer = SQT
            /\ AdminSQ'.HeadPointer # AdminSQ'.TailPointer
       /\ (pc = "drain" /\ op' \in {"host", "reset"}) =>
            /\ pc' = "drain"
            /\ Pointers(AdminSQ') = Pointers(AdminSQ)]_vars

\* C16: between two calls of checkForChanges the head and the tail of every queue
\* in either registry are below its slot count, and the commands in flight in a
\* submission queue, (tail - head) mod slot count, are between 0 and slot count - 1.
C16_PointersInRange ==
    pc = "idle" =>
        /\ \A i \in 1 .. Len(ValidSubmissionQueues) :
               LET q == ValidSubmissionQueues[i]
               IN  /\ q.HeadPointer \in 0 .. q.QueueSize - 1
                   /\ q.TailPointer \in 0 .. q.QueueSize - 1
                   /\ (q.TailPointer - q.HeadPointer) % q.QueueSize \in 0 .. q.QueueSize - 1
        /\ \A i \in 1 .. Len(ValidCompletionQueues) :
               LET q == ValidCompletionQueues[i]
               IN  /\ q.HeadPointer \in 0 .. q.QueueSize - 1
                   /\ q.TailPointer \in 0 .. q.QueueSize - 1

\* C16 witness: the admin SQ has more slots than the admin CQ and has accepted
\* and drained up to a tail the CQ has no slot for.
C16_TailBeyondCompletionQueue ==
    /\ pc = "idle"
    /\ op = "drain"
    /\ AdminPair
    /\ AdminSQ.QueueSize > AdminCQ.QueueSize
    /\ AdminSQ.TailPointer >= AdminCQ.QueueSize
    /\ AdminSQ.HeadPointer = AdminSQ.TailPointer

\* C18: a controller reset does not disturb the phase tag: the completion counted
\* k (from 0, mod 2n, resets or not) into a CQ of n slots carries P = 1 in the
\* passes over the ring with k < n and P = 0 in the others, so the tag is that
\* of the entries posted into the same pass before the reset and flips at the wrap.
C18_PhaseTagSurvivesReset ==
    \A i \in 1 .. Len(posted) :
        LET PassTag == IF posted[i].k < AdminCQ.QueueSize THEN 1 ELSE 0
        IN  posted[i].entry.P = PassTag

\* C19: controllerResetCallback leaves the admin queues as they are (head, tail,
\* slot count, memory address, pairing) and writes no host memory and no doorbell.
C19_ResetKeepsAdminQueues ==
    [][op' = "reset" =>
          /\ UNCHANGED <<ValidSubmissionQueues, ValidCompletionQueues, CQH, pc, crashed>>
          /\ NothingStored]_vars

\* C19 witness: a reset has happened with the admin pair materialized and the
\* heads and tails of both queues not 0.
C19_ResetWithWorkDone ==
    /\ op = "reset"
    /\ AdminPair
    /\ AdminSQ.HeadPointer # 0 /\ AdminSQ.TailPointer # 0
    /\ AdminCQ.HeadPointer # 0 /\ AdminCQ.TailPointer # 0

=============================================================================
